---- MODULE Spec2Model ----
(***************************************************************************)
(* The market-discovery dashboard: DashboardComponent                      *)
(* (dashboard.component.ts) and the TradingService call it makes           *)
(* (trading.service.ts).  The component runs on one thread, so every       *)
(* handler (ngOnInit, refreshData, setPriceRange, the next and error       *)
(* callbacks of a subscription) is one atomic step.  A subscription made   *)
(* by refreshData() stays pending until the HTTP call completes; nothing   *)
(* orders the completions of overlapping calls.                            *)
(***************************************************************************)
EXTENDS Integers, Sequences, FiniteSets, TLC

(***************************************************************************)
(* Bounds of the model.                                                    *)
(***************************************************************************)
\* The number of HTTP calls a behaviour may issue.
MaxFetches == 2

\* The values a price field may take (0 and 200 are the defaults).
PriceVals == {0, 100, 200}

\* The values maxStocks may take (50 is the default).
StockVals == {10, 50}

\* The number of volumes tried at each step of 50 above 1000 and of 50000
\* above 1000000 (the values that lie halfway between two tenths).
TieSteps == 40

\* The failure causes (err.message) the HTTP layer may report.
Causes == {"Http failure response for http://localhost:5050/api/market-discovery: 0 Unknown Error"}

(***************************************************************************)
(* string | null and MarketSummary | null: <<>> is null, <<v>> is v.       *)
(***************************************************************************)
Null == <<>>

Some(v) == <<v>>

(***************************************************************************)
(* The responses the backend may send (MarketDiscoveryResponse).           *)
(***************************************************************************)
Opp(sym, vol, rec) == [symbol |-> sym, volume |-> vol, recommendation |-> rec]

Responses ==
    { [success |-> TRUE,
       summary |-> [totalOpportunities |-> 2, strongBuy |-> 1, buy |-> 1, weakBuy |-> 0],
       opportunities |-> << Opp("AAPL", "2500000", "STRONG BUY"), Opp("F", "1500", "BUY") >>],
      [success |-> TRUE,
       summary |-> [totalOpportunities |-> 1, strongBuy |-> 0, buy |-> 0, weakBuy |-> 1],
       opportunities |-> << Opp("GE", "500", "WEAK BUY") >>] }

(***************************************************************************)
(* TradingService                                                          *)
(***************************************************************************)
apiUrl == "http://localhost:5050/api"

\* getMarketDiscovery: one GET whose three query parameters are the
\* arguments turned to text.
getMarketDiscoverySwapped(ms, mn, mx) ==
    [method |-> "GET",
     url    |-> apiUrl \o "/market-discovery",
     params |-> [max_stocks |-> ToString(ms),
                 min_price  |-> ToString(mx),
                 max_price  |-> ToString(mn)]]

getMarketDiscovery(ms, mn, mx) ==
    [method |-> "GET",
     url    |-> apiUrl \o "/market-discovery",
     params |-> [max_stocks |-> ToString(ms),
                 min_price  |-> ToString(mn),
                 max_price  |-> ToString(mx)]]

(***************************************************************************)
(* DashboardComponent: the fields and the effect of each branch of         *)
(* refreshData() on them.  A component value is a record of the fields.    *)
(***************************************************************************)
ValidationMsg == "Minimum price must be less than maximum price"

FailPrefix == "Failed to load market data: "

\* The field initialisers.
NewComponent ==
    [opportunities |-> <<>>,
     summary       |-> Null,
     loading       |-> FALSE,
     error         |-> Null,
     maxStocks     |-> 50,
     minPrice      |-> 0,
     maxPrice      |-> 200]

\* if (this.minPrice >= this.maxPrice)
InvalidRangeOff(c) == c.minPrice > c.maxPrice

InvalidRange(c) == c.minPrice >= c.maxPrice

\* The body of the validation branch: this.error = '...'; return;
RejectClearsData(c) ==
    [c EXCEPT !.error = Some(ValidationMsg), !.opportunities = <<>>, !.summary = Null]

RejectAfterStart(c) == [c EXCEPT !.loading = TRUE, !.error = Some(ValidationMsg)]

Reject(c) == [c EXCEPT !.error = Some(ValidationMsg)]

\* this.loading = true; this.error = null;
StartKeepsLoading(c) == [c EXCEPT !.error = Null]

Start(c) == [c EXCEPT !.loading = TRUE, !.error = Null]

\* The request refreshData() hands to the service.
RequestDefaults(c) == getMarketDiscovery(50, c.minPrice, c.maxPrice)

Request(c) == getMarketDiscovery(c.maxStocks, c.minPrice, c.maxPrice)

\* next: (response) => { ... }
OnNextKeepsLoading(c, response) ==
    [c EXCEPT !.opportunities = response.opportunities,
              !.summary       = Some(response.summary)]

OnNextKeepsSummary(c, response) ==
    [c EXCEPT !.opportunities = response.opportunities, !.loading = FALSE]

OnNext(c, response) ==
    [c EXCEPT !.opportunities = response.opportunities,
              !.summary       = Some(response.summary),
              !.loading       = FALSE]

\* setPriceRange: this.minPrice = min; this.maxPrice = max;
SetRangeMinOnly(c, min, max) == [c EXCEPT !.minPrice = min]

SetRange(c, min, max) == [c EXCEPT !.minPrice = min, !.maxPrice = max]

\* error: (err) => { ... }
OnErrorClearsData(c, err) ==
    [c EXCEPT !.error = Some(FailPrefix \o err.message),
              !.loading = FALSE,
              !.opportunities = <<>>,
              !.summary = Null]

OnErrorRawMessage(c, err) ==
    [c EXCEPT !.error = Some(err.message), !.loading = FALSE]

OnErrorKeepsLoading(c, err) ==
    [c EXCEPT !.error = Some(FailPrefix \o err.message)]

OnError(c, err) ==
    [c EXCEPT !.error = Some(FailPrefix \o err.message), !.loading = FALSE]

\* No display helper has been called yet.
NoCall == [fn |-> "none", arg |-> <<>>, ret |-> <<>>]

(***************************************************************************)
(* The display helpers.  A recommendation is a string; a volume text is a  *)
(* sequence of characters, so that parseInt can read it.                   *)
(***************************************************************************)
\* switch (recommendation) { case 'STRONG BUY': ... default: ... }
getRecommendationClassAnyCase(recommendation) ==
    CASE recommendation \in {"STRONG BUY", "strong buy"} -> "strong-buy"
      [] recommendation \in {"BUY", "buy"}               -> "buy"
      [] recommendation \in {"WEAK BUY", "weak buy"}     -> "weak-buy"
      [] recommendation \in {"HOLD", "hold"}             -> "hold"
      [] OTHER                                           -> "neutral"

getRecommendationClass(recommendation) ==
    CASE recommendation = "STRONG BUY" -> "strong-buy"
      [] recommendation = "BUY"        -> "buy"
      [] recommendation = "WEAK BUY"   -> "weak-buy"
      [] recommendation = "HOLD"       -> "hold"
      [] OTHER                         -> "neutral"

DigitChars == <<"0", "1", "2", "3", "4", "5", "6", "7", "8", "9">>

IsDigit(ch) == \E d \in 1..10 : DigitChars[d] = ch

DigitValue(ch) == (CHOOSE d \in 1..10 : DigitChars[d] = ch) - 1

\* The decimal text of a non-negative integer (Number.prototype.toString).
RECURSIVE NumText(_)
NumText(n) ==
    IF n < 10
    THEN <<DigitChars[n + 1]>>
    ELSE Append(NumText(n \div 10), DigitChars[(n % 10) + 1])

\* The value of the digits of text from position i on, up to the first
\* character that is no digit, continuing the value acc.
RECURSIVE DigitRun(_, _, _)
DigitRun(text, i, acc) ==
    IF i > Len(text) \/ ~IsDigit(text[i])
    THEN acc
    ELSE DigitRun(text, i + 1, 10 * acc + DigitValue(text[i]))

\* The first position of text that holds no blank.
RECURSIVE SkipBlanks(_, _)
SkipBlanks(text, i) ==
    IF i <= Len(text) /\ text[i] = " " THEN SkipBlanks(text, i + 1) ELSE i

\* parseInt(text): blanks, a sign, then the longest run of digits; NaN
\* (Null here) when no digit follows.
parseInt(text) ==
    LET b == SkipBlanks(text, 1)
        signed == b <= Len(text) /\ text[b] \in {"-", "+"}
        d == IF signed THEN b + 1 ELSE b
    IN  IF d > Len(text) \/ ~IsDigit(text[d])
        THEN Null
        ELSE IF signed /\ text[b] = "-"
             THEN Some(0 - DigitRun(text, d, 0))
             ELSE Some(DigitRun(text, d, 0))

\* The binary exponent of n / d, for n >= d.
RECURSIVE Binade(_, _)
Binade(n, d) == IF n < 2 * d THEN 0 ELSE 1 + Binade(n \div 2, d)

\* (r * 2^k) % m
RECURSIVE ShiftMod(_, _, _)
ShiftMod(r, k, m) == IF k = 0 THEN r % m ELSE ShiftMod((2 * r) % m, k - 1, m)

\* The number n / d is a double: the quotient rounded to 53 significant
\* bits, to nearest and to even when halfway.  The double is not below the
\* exact quotient.
QuotientNotBelow(n, d) ==
    LET R == ShiftMod(n % (2 * d), 52 - Binade(n, d), 2 * d)
        r == R % d
    IN  \/ r = 0
        \/ 2 * r > d
        \/ 2 * r = d /\ R >= d

\* (n / d).toFixed(1) for n >= d: the tenth nearest the double n / d, the
\* larger one when the double lies exactly halfway.
toFixed1(n, d) ==
    LET unit == d \div 10
        low == n \div unit
        rest == n % unit
        up == IF 2 * rest # unit THEN 2 * rest > unit ELSE QuotientNotBelow(n, d)
        tenths == IF up THEN low + 1 ELSE low
    IN  NumText(tenths \div 10) \o <<".">> \o NumText(tenths % 10)

formatVolumeStrict(volume) ==
    LET num == parseInt(volume)
    IN  IF num # Null /\ num[1] > 1000000
        THEN toFixed1(num[1], 1000000) \o <<"M">>
        ELSE IF num # Null /\ num[1] > 1000
             THEN toFixed1(num[1], 1000) \o <<"K">>
             ELSE volume

\* NaN >= x is false, so a text parseInt cannot read is returned as it is.
formatVolume(volume) ==
    LET num == parseInt(volume)
    IN  IF num # Null /\ num[1] >= 1000000
        THEN toFixed1(num[1], 1000000) \o <<"M">>
        ELSE IF num # Null /\ num[1] >= 1000
             THEN toFixed1(num[1], 1000) \o <<"K">>
             ELSE volume

\* The recommendations the helper is tried on.
Recommendations ==
    {"STRONG BUY", "BUY", "WEAK BUY", "HOLD", "SELL", "buy", "Buy", "hold",
     "strong buy", "STRONG  BUY", "BUY ", ""}

\* The volumes the helper is tried on.
VolumeNumbers ==
    {0, 7, 500, 999, 1000, 1001, 1049, 1051, 1500, 1949, 9999, 99949, 99950,
     99951, 999949, 999950, 999999, 1000000, 1000001, 1049999, 1050001,
     2500000, 9950000, 12345678}
    \cup {1000 + 50 * k : k \in 0..TieSteps}
    \cup {1000000 + 50000 * k : k \in 0..TieSteps}

VolumeTexts ==
    {NumText(n) : n \in VolumeNumbers}
    \cup {<<>>, <<"a", "b", "c">>, <<"1", "2", "a">>, <<" ", "4", "2">>,
          <<"-", "5">>, <<"0", "0", "7">>, <<"1", "5", "0", "0", ".", "9">>,
          <<"2", "5", "0", "0", "0", "0", "0", " ">>}

(***************************************************************************)
(* The state.                                                              *)
(***************************************************************************)
VARIABLES
    opportunities,  \* MarketOpportunity[]
    summary,        \* MarketSummary | null
    loading,        \* boolean
    error,          \* string | null
    maxStocks,      \* number
    minPrice,       \* number
    maxPrice,       \* number
    pc,             \* "constructed" before ngOnInit has run, "ready" after
    fetches,        \* the subscriptions made so far, in the order made
    now,            \* the number of issue and completion events so far
    lastOp,         \* the handler that ran last, and its arguments
    invoked,        \* the refreshData() calls so far that found minPrice < maxPrice
    call            \* the last call of a display helper: its argument and result

vars == <<opportunities, summary, loading, error, maxStocks, minPrice, maxPrice,
          pc, fetches, now, lastOp, invoked, call>>

\* The component as a record of its fields.
this ==
    [opportunities |-> opportunities,
     summary       |-> summary,
     loading       |-> loading,
     error         |-> error,
     maxStocks     |-> maxStocks,
     minPrice      |-> minPrice,
     maxPrice      |-> maxPrice]

\* The fields take the values of the component record c.
Assign(c) ==
    /\ opportunities' = c.opportunities
    /\ summary'       = c.summary
    /\ loading'       = c.loading
    /\ error'         = c.error
    /\ maxStocks'     = c.maxStocks
    /\ minPrice'      = c.minPrice
    /\ maxPrice'      = c.maxPrice

(***************************************************************************)
(* Subscriptions.  fetches[i] is the i-th call: its request, its status    *)
(* ("pending", "ok", "failed"), what it completed with, when it was issued *)
(* and completed, and the results displayed when refreshData() made it.    *)
(***************************************************************************)
Ids == 1..Len(fetches)

Pending == {i \in Ids : fetches[i].status = "pending"}

Completed == {i \in Ids : fetches[i].status \in {"ok", "failed"}}

Succeeded == {i \in Ids : fetches[i].status = "ok"}

NewFetch(c, req, t) ==
    [req      |-> req,
     status   |-> "pending",
     result   |-> Null,
     issuedAt |-> t,
     doneAt   |-> 0,
     before   |-> [opportunities |-> c.opportunities, summary |-> c.summary]]

\* .subscribe({...}): one more pending call; the earlier ones are untouched.
SubscribeSwitching(fs, f) ==
    Append([i \in 1..Len(fs) |->
               IF fs[i].status = "pending"
               THEN [fs[i] EXCEPT !.status = "cancelled"]
               ELSE fs[i]],
           f)

Subscribe(fs, f) == Append(fs, f)

\* The call i completes at time t with result r.
CompleteRetrying(fs, i, st, r, t) ==
    LET done == [fs EXCEPT ![i] = [@ EXCEPT !.status = st, !.result = Some(r),
                                            !.doneAt = t]]
    IN  IF st = "failed"
        THEN Append(done, [fs[i] EXCEPT !.issuedAt = t])
        ELSE done

Complete(fs, i, st, r, t) ==
    [fs EXCEPT ![i] = [@ EXCEPT !.status = st, !.result = Some(r), !.doneAt = t]]

(***************************************************************************)
(* refreshData() run on the component value c, as the handler op that was  *)
(* called with args.                                                       *)
(***************************************************************************)
refresh(c, op, args) ==
    /\ IF InvalidRange(c)
       THEN /\ Assign(Reject(c))
            /\ lastOp' = [op |-> op, id |-> 0, rejected |-> TRUE, args |-> args]
            /\ UNCHANGED <<fetches, now>>
       ELSE /\ Len(fetches) < MaxFetches
            /\ Assign(Start(c))
            /\ fetches' = Subscribe(fetches, NewFetch(c, Request(c), now + 1))
            /\ now' = now + 1
            /\ lastOp' = [op |-> op, id |-> Len(fetches) + 1, rejected |-> FALSE,
                          args |-> args]
    /\ invoked' = invoked + (IF c.minPrice < c.maxPrice THEN 1 ELSE 0)
    /\ UNCHANGED call

(***************************************************************************)
(* The initial state and the steps.                                        *)
(***************************************************************************)
Init ==
    /\ opportunities = NewComponent.opportunities
    /\ summary = NewComponent.summary
    /\ loading = NewComponent.loading
    /\ error = NewComponent.error
    /\ maxStocks = NewComponent.maxStocks
    /\ minPrice = NewComponent.minPrice
    /\ maxPrice = NewComponent.maxPrice
    /\ pc = "constructed"
    /\ fetches = <<>>
    /\ now = 0
    /\ lastOp = [op |-> "constructor", id |-> 0, rejected |-> FALSE, args |-> <<>>]
    /\ invoked = 0
    /\ call = NoCall

\* Angular runs ngOnInit once, before any user event reaches the component.
ngOnInit ==
    /\ pc = "constructed"
    /\ pc' = "ready"
    /\ refresh(this, "ngOnInit", <<>>)

\* The user asks for a refresh.
refreshData ==
    /\ pc = "ready"
    /\ refresh(this, "refreshData", <<>>)
    /\ UNCHANGED pc

setPriceRange(min, max) ==
    /\ pc = "ready"
    /\ refresh(SetRange(this, min, max), "setPriceRange", <<min, max>>)
    /\ UNCHANGED pc

\* The user edits a filter field bound to the form; nothing else runs.
SetMaxStocks(n) ==
    /\ pc = "ready"
    /\ maxStocks # n
    /\ maxStocks' = n
    /\ lastOp' = [op |-> "edit", id |-> 0, rejected |-> FALSE, args |-> <<n>>]
    /\ UNCHANGED <<opportunities, summary, loading, error, minPrice, maxPrice,
                   pc, fetches, now, invoked, call>>

\* The pending call i completes with a response: its next callback runs.
FetchNext(i, response) ==
    /\ i \in Pending
    /\ Assign(OnNext(this, response))
    /\ fetches' = Complete(fetches, i, "ok", response, now + 1)
    /\ now' = now + 1
    /\ lastOp' = [op |-> "next", id |-> i, rejected |-> FALSE, args |-> <<>>]
    /\ UNCHANGED <<pc, invoked, call>>

\* The pending call i fails: its error callback runs.
FetchError(i, cause) ==
    /\ i \in Pending
    /\ Assign(OnError(this, [message |-> cause]))
    /\ fetches' = Complete(fetches, i, "failed", [message |-> cause], now + 1)
    /\ now' = now + 1
    /\ lastOp' = [op |-> "error", id |-> i, rejected |-> FALSE, args |-> <<>>]
    /\ UNCHANGED <<pc, invoked, call>>

Next ==
    \/ ngOnInit
    \/ refreshData
    \/ \E min \in PriceVals, max \in PriceVals : setPriceRange(min, max)
    \/ \E n \in StockVals : SetMaxStocks(n)
    \/ \E i \in Ids, response \in Responses : FetchNext(i, response)
    \/ \E i \in Ids, cause \in Causes : FetchError(i, cause)

Spec == Init /\ [][Next]_vars

\* Some outstanding call completes, with a response or a failure.
Completion ==
    \/ \E i \in Ids, response \in Responses : FetchNext(i, response)
    \/ \E i \in Ids, cause \in Causes : FetchError(i, cause)

\* The steps of the component's own handlers (maxStocks keeps its value).
LiveNext ==
    \/ ngOnInit
    \/ refreshData
    \/ \E min \in PriceVals, max \in PriceVals : setPriceRange(min, max)
    \/ Completion

\* The HTTP layer completes every call in the end: while calls are
\* outstanding, one of them completes.
LiveSpec == Init /\ [][LiveNext]_vars /\ WF_vars(Completion)

\* The view asks for the class of a recommendation.
CallGetRecommendationClass(recommendation) ==
    /\ call' = [fn  |-> "getRecommendationClass",
                arg |-> recommendation,
                ret |-> getRecommendationClass(recommendation)]
    /\ UNCHANGED <<opportunities, summary, loading, error, maxStocks, minPrice,
                   maxPrice, pc, fetches, now, lastOp, invoked>>

\* The view asks for the display form of a volume.
CallFormatVolume(volume) ==
    /\ call' = [fn |-> "formatVolume", arg |-> volume, ret |-> formatVolume(volume)]
    /\ UNCHANGED <<opportunities, summary, loading, error, maxStocks, minPrice,
                   maxPrice, pc, fetches, now, lastOp, invoked>>

\* The helpers called while the initial load runs and completes.
HelperNext ==
    \/ ngOnInit
    \/ Completion
    \/ \E recommendation \in Recommendations : CallGetRecommendationClass(recommendation)
    \/ \E volume \in VolumeTexts : CallFormatVolume(volume)

HelperSpec == Init /\ [][HelperNext]_vars

(***************************************************************************)
(* Properties.                                                             *)
(***************************************************************************)
TypeOK ==
    /\ loading \in BOOLEAN
    /\ pc \in {"constructed", "ready"}
    /\ minPrice \in PriceVals /\ maxPrice \in PriceVals /\ maxStocks \in StockVals
    /\ Len(fetches) <= MaxFetches
    /\ now \in 0..(2 * MaxFetches)

\* The handlers that run refreshData().
RefreshOps == {"ngOnInit", "refreshData", "setPriceRange"}

\* The step just taken ran refreshData() (the fields it read are the fields
\* of the new state: refreshData() assigns neither price).
Refreshed == lastOp.op \in RefreshOps

\* The call made last.
Latest == fetches[Len(fetches)]

\* The response of a call that succeeded, the error of one that failed.
Payload(i) == fetches[i].result[1]

\* The calls i and j were outstanding at the same time.
Overlap(i, j) ==
    /\ fetches[i].issuedAt < fetches[j].doneAt
    /\ fetches[j].issuedAt < fetches[i].doneAt

\* The successful call that completed last.
LastSucceeded ==
    CHOOSE i \in Succeeded : \A j \in Succeeded : fetches[j].doneAt <= fetches[i].doneAt

\* The query of request r is the text of the numbers ms, mn, mx.
Carries(r, ms, mn, mx) ==
    /\ r.params.max_stocks = ToString(ms)
    /\ r.params.min_price = ToString(mn)
    /\ r.params.max_price = ToString(mx)

\* C1: every request issued carries min_price < max_price, and a
\* refreshData() that runs with minPrice >= maxPrice (directly or through
\* setPriceRange) issues no request and sets error to the validation message.
C1_InvalidRangeNeverSent ==
    /\ [](\A i \in Ids :
            \E ms \in StockVals, mn \in PriceVals, mx \in PriceVals :
                mn < mx /\ Carries(fetches[i].req, ms, mn, mx))
    /\ [][(Refreshed' /\ minPrice' >= maxPrice')
            => (fetches' = fetches /\ error' = Some(ValidationMsg))]_vars

\* C1 witness: refreshData() ran with equal bounds after a request had been
\* issued, and no further request was issued.
C1_Witness ==
    /\ lastOp.op = "refreshData"
    /\ minPrice = maxPrice
    /\ error = Some(ValidationMsg)
    /\ Len(fetches) = 1

\* C2 as claimed: loading is false after every refreshData() that ran with
\* minPrice >= maxPrice, also while an earlier fetch is outstanding.
C2_Original == (Refreshed /\ minPrice >= maxPrice) => loading = FALSE

\* C2 as amended: a refreshData() that runs with minPrice >= maxPrice leaves
\* loading as it was; loading is false after it whenever no fetch is
\* outstanding.
C2_RejectLeavesLoading ==
    /\ [][(Refreshed' /\ minPrice' >= maxPrice') => loading' = loading]_vars
    /\ []((Refreshed /\ minPrice >= maxPrice /\ Pending = {}) => loading = FALSE)

\* C2 witness: a rejected refreshData() while a fetch is outstanding, and
\* loading still true.
C2_Witness ==
    /\ Refreshed
    /\ minPrice >= maxPrice
    /\ error = Some(ValidationMsg)
    /\ Pending # {}
    /\ loading = TRUE

\* C3: from every state, a refreshData() that runs with minPrice < maxPrice
\* sets loading to true and error to null and issues exactly one request,
\* which carries the current maxStocks, minPrice and maxPrice.
C3_ValidRefreshStartsFetch ==
    [][(Refreshed' /\ minPrice' < maxPrice')
        => /\ loading' = TRUE
           /\ error' = Null
           /\ Len(fetches') = Len(fetches) + 1
           /\ \A i \in Ids : fetches'[i] = fetches[i]
           /\ fetches'[Len(fetches')].status = "pending"
           /\ fetches'[Len(fetches')].req.method = "GET"
           /\ Carries(fetches'[Len(fetches')].req, maxStocks', minPrice', maxPrice')]_vars

\* C3 witness: refreshData() issued a fetch right after a fetch had failed
\* (the state was Errored), with a maxStocks other than the default.
C3_Witness ==
    /\ lastOp.op = "refreshData"
    /\ Len(fetches) = 2
    /\ fetches[1].status = "failed"
    /\ fetches[1].doneAt + 1 = Latest.issuedAt
    /\ Latest.status = "pending"
    /\ maxStocks = 10
    /\ loading = TRUE
    /\ error = Null

\* C4: right after the next callback of a fetch has run, opportunities and
\* summary are those of its response and loading is false.
C4_SuccessReplacesResults ==
    lastOp.op = "next"
        => /\ opportunities = Payload(lastOp.id).opportunities
           /\ summary = Some(Payload(lastOp.id).summary)
           /\ loading = FALSE

\* C4 witness: a fetch succeeded while another one is outstanding and the
\* results displayed before were different.
C4_Witness ==
    /\ lastOp.op = "next"
    /\ Pending # {}
    /\ opportunities # fetches[lastOp.id].before.opportunities

\* C5 as claimed: error is null right after the next callback of a fetch
\* has run.
C5_Original == lastOp.op = "next" => error = Null

\* C6 as claimed: after the error callback of a fetch has run,
\* opportunities and summary are what they were just before the
\* refreshData() that issued the fetch, error is a non-empty string and
\* loading is false.
C6_Original ==
    lastOp.op = "error"
        => /\ opportunities = fetches[lastOp.id].before.opportunities
           /\ summary = fetches[lastOp.id].before.summary
           /\ error # Null /\ Len(error[1]) > 0
           /\ loading = FALSE

\* The successful calls that completed while call i was outstanding.
SucceededDuring(i) ==
    {j \in Succeeded : fetches[i].issuedAt < fetches[j].doneAt
                       /\ fetches[j].doneAt < fetches[i].doneAt}

\* C6 as amended: after the error callback of a fetch has run, error is a
\* non-empty string and loading is false; opportunities and summary are
\* what they were just before the refreshData() that issued the fetch when
\* no other fetch succeeded in between, and otherwise those of the response
\* that arrived last in between.
C6_FailureKeepsResults ==
    lastOp.op = "error"
        => /\ error # Null /\ Len(error[1]) > 0
           /\ loading = FALSE
           /\ IF SucceededDuring(lastOp.id) = {}
              THEN /\ opportunities = fetches[lastOp.id].before.opportunities
                   /\ summary = fetches[lastOp.id].before.summary
              ELSE LET j == CHOOSE k \in SucceededDuring(lastOp.id) :
                                \A m \in SucceededDuring(lastOp.id) :
                                    fetches[m].doneAt <= fetches[k].doneAt
                   IN  /\ opportunities = Payload(j).opportunities
                       /\ summary = Some(Payload(j).summary)

\* C6 witness: a fetch failed after results had been loaded, with no other
\* success in between, and the loaded results are still displayed.
C6_Witness ==
    /\ lastOp.op = "error"
    /\ SucceededDuring(lastOp.id) = {}
    /\ fetches[lastOp.id].before.opportunities # <<>>
    /\ opportunities = fetches[lastOp.id].before.opportunities

\* C7: the error callback sets error to the prefix followed by the failure
\* cause and loading to false, and leaves opportunities, summary, maxStocks,
\* minPrice and maxPrice as they were.
C7_FailureStep ==
    [][(lastOp'.op = "error" /\ fetches' # fetches)
        => /\ error' = Some("Failed to load market data: "
                              \o fetches'[lastOp'.id].result[1].message)
           /\ loading' = FALSE
           /\ UNCHANGED <<opportunities, summary, maxStocks, minPrice, maxPrice>>]_vars

\* C7 witness: a fetch failed while loaded results were displayed and
\* loading was true.
C7_Witness ==
    /\ lastOp.op = "error"
    /\ opportunities # <<>>
    /\ summary # Null
    /\ error = Some(FailPrefix \o Payload(lastOp.id).message)
    /\ loading = FALSE

\* C8: refreshData() cancels no outstanding fetch, and of two overlapping
\* fetches that both succeeded the one that completed last has its response
\* displayed (until a later one succeeds), whichever was issued first.
C8_NoCancelLastWins ==
    /\ [][Refreshed' => \A i \in Pending : i \in Pending' /\ fetches'[i] = fetches[i]]_vars
    /\ [](\A i \in Succeeded, j \in Succeeded :
            (i # j /\ Overlap(i, j) /\ j = LastSucceeded)
                => /\ opportunities = Payload(j).opportunities
                   /\ summary = Some(Payload(j).summary))

\* C8 witness: two overlapping fetches both succeeded, the one issued first
\* completed last, and its response (different from the other's) is
\* displayed.
C8_Witness ==
    /\ Len(fetches) = 2
    /\ Succeeded = {1, 2}
    /\ Overlap(1, 2)
    /\ fetches[2].doneAt < fetches[1].doneAt
    /\ Payload(1) # Payload(2)
    /\ opportunities = Payload(1).opportunities

\* C9 as claimed, where the fetch issued last succeeded: when no fetch is
\* outstanding, the response displayed is that of the fetch issued last,
\* not that of an earlier one.
C9_Original ==
    (Pending = {} /\ Len(fetches) \in Succeeded)
        => /\ opportunities = Payload(Len(fetches)).opportunities
           /\ summary = Some(Payload(Len(fetches)).summary)

\* C10 as claimed: loading is true in every state in which a fetch is
\* outstanding.
C10_Original == Pending # {} => loading = TRUE

\* C10 as amended: while a fetch is outstanding only the completion of a
\* fetch (its own or an overlapping one's) turns loading false, no timeout
\* or other event does; loading is true in every state in which a fetch is
\* outstanding and no fetch has completed since the last one was issued.
C10_HungFetchKeepsLoading ==
    /\ [][(loading = TRUE /\ loading' = FALSE)
            => \E i \in Pending : fetches'[i].status \in {"ok", "failed"}]_vars
    /\ []((Pending # {} /\ \A j \in Completed : fetches[j].doneAt < Latest.issuedAt)
            => loading = TRUE)

\* C10 witness: a fetch is outstanding, other handlers have run since it
\* was issued (a rejected refreshData() last), and loading is still true.
C10_Witness ==
    /\ Pending # {}
    /\ Completed # {}
    /\ \A j \in Completed : fetches[j].doneAt < Latest.issuedAt
    /\ lastOp.rejected
    /\ loading = TRUE

\* C11: setPriceRange(min, max) stores both bounds and runs refreshData()
\* once: with min < max exactly one fetch is issued, carrying min and max;
\* with min >= max no fetch is issued and the validation message is set.
C11_SetPriceRange ==
    [][lastOp'.op = "setPriceRange"
        => LET min == lastOp'.args[1]
               max == lastOp'.args[2]
           IN  /\ minPrice' = min
               /\ maxPrice' = max
               /\ IF min < max
                  THEN /\ Len(fetches') = Len(fetches) + 1
                       /\ \A i \in Ids : fetches'[i] = fetches[i]
                       /\ fetches'[Len(fetches')].req.params.min_price = ToString(min)
                       /\ fetches'[Len(fetches')].req.params.max_price = ToString(max)
                       /\ invoked' = invoked + 1
                  ELSE /\ fetches' = fetches
                       /\ invoked' = invoked
                       /\ error' = Some(ValidationMsg)]_vars

\* C11 witness: setPriceRange(100, 200) stored the bounds and issued a fetch
\* that carries them.
C11_Witness ==
    /\ lastOp.op = "setPriceRange"
    /\ lastOp.args = <<100, 200>>
    /\ minPrice = 100
    /\ maxPrice = 200
    /\ lastOp.id = Len(fetches)
    /\ Latest.req.params.min_price = "100"
    /\ Latest.req.params.max_price = "200"

\* C12: a freshly constructed controller has loading=false, error=null, no
\* opportunities, no summary and no request; ngOnInit issues exactly one
\* GET to /market-discovery with max_stocks=50, min_price=0, max_price=200
\* and sets loading to true.
C12_InitialLoad ==
    /\ pc = "constructed"
         => /\ loading = FALSE
            /\ error = Null
            /\ opportunities = <<>>
            /\ summary = Null
            /\ fetches = <<>>
    /\ lastOp.op = "ngOnInit"
         => /\ Len(fetches) = 1
            /\ fetches[1].status = "pending"
            /\ fetches[1].req =
                 [method |-> "GET",
                  url    |-> "http://localhost:5050/api/market-discovery",
                  params |-> [max_stocks |-> "50", min_price |-> "0", max_price |-> "200"]]
            /\ loading = TRUE

\* C12 witness: ngOnInit has just run and its fetch is outstanding.
C12_Witness ==
    /\ lastOp.op = "ngOnInit"
    /\ pc = "ready"
    /\ Pending = {1}
    /\ loading = TRUE

\* C13: the number of requests issued is the number of refreshData() calls
\* that found minPrice < maxPrice; after the error callback of a fetch no
\* request has been added, error is set and loading is false.
C13_NoRetry ==
    /\ Len(fetches) = invoked
    /\ lastOp.op = "error"
         => /\ fetches[lastOp.id].status = "failed"
            /\ error # Null
            /\ loading = FALSE

\* C13 witness: the second of two fetches has just failed, after a
\* refreshData() was rejected, and there are still two requests.
C13_Witness ==
    /\ lastOp.op = "error"
    /\ lastOp.id = 2
    /\ minPrice >= maxPrice
    /\ invoked = 2
    /\ Len(fetches) = 2

\* C14: getRecommendationClass maps exactly 'STRONG BUY', 'BUY', 'WEAK BUY'
\* and 'HOLD' to their classes and every other string ('SELL', 'buy', the
\* empty string, ...) to 'neutral', whatever the controller's state, and a
\* call of it changes nothing of that state.
C14_RecommendationClass ==
    /\ [](call.fn = "getRecommendationClass"
            => /\ call.arg = "STRONG BUY" => call.ret = "strong-buy"
               /\ call.arg = "BUY" => call.ret = "buy"
               /\ call.arg = "WEAK BUY" => call.ret = "weak-buy"
               /\ call.arg = "HOLD" => call.ret = "hold"
               /\ call.arg \notin {"STRONG BUY", "BUY", "WEAK BUY", "HOLD"}
                    => call.ret = "neutral")
    /\ [][(call' # call /\ call'.fn = "getRecommendationClass")
            => UNCHANGED <<opportunities, summary, loading, error, maxStocks,
                           minPrice, maxPrice, fetches>>]_vars

\* C14 witness: lowercase 'buy' was classified as 'neutral' while results
\* were on display.
C14_Witness ==
    /\ call.fn = "getRecommendationClass"
    /\ call.arg = "buy"
    /\ call.ret = "neutral"
    /\ opportunities # <<>>

\* The text of a number of tenths: 15 is 1.5.
TenthsText(t) == NumText(t \div 10) \o <<".">> \o NumText(t % 10)

\* The number of tenths of n / d rounded to one decimal, halves upwards and
\* halves to even (d is 1000 or 1000000).
HalfUp(n, d) == (2 * n + (d \div 10)) \div (2 * (d \div 10))

HalfEven(n, d) ==
    IF 2 * (n % (d \div 10)) = d \div 10 /\ (n \div (d \div 10)) % 2 = 0
    THEN n \div (d \div 10)
    ELSE HalfUp(n, d)

\* The last call formatted the decimal text of the number n.
Formatted(n) == call.fn = "formatVolume" /\ call.arg = NumText(n)

\* C15 as claimed: the text is returned unchanged below 1000, and otherwise
\* n/1000 (n/1000000 from a million on) rounded to one decimal, halves
\* upwards or to even, with 'K' ('M').
C15_Original ==
    \A n \in VolumeNumbers :
        Formatted(n)
            => IF n < 1000
               THEN call.ret = call.arg
               ELSE IF n < 1000000
                    THEN call.ret \in {TenthsText(HalfUp(n, 1000)) \o <<"K">>,
                                       TenthsText(HalfEven(n, 1000)) \o <<"K">>}
                    ELSE call.ret \in {TenthsText(HalfUp(n, 1000000)) \o <<"M">>,
                                       TenthsText(HalfEven(n, 1000000)) \o <<"M">>}

\* The text ret is the tenth nearest n / d followed by unit; when n / d
\* lies halfway between two tenths it is the upper tenth exactly when the
\* double n / d is not below the exact quotient.
RoundedAsToFixed(ret, n, d, unit) ==
    \E t \in (n \div (d \div 10))..((n \div (d \div 10)) + 1) :
        /\ ret = TenthsText(t) \o <<unit>>
        /\ 2 * (t * (d \div 10) - n) <= d \div 10
        /\ 2 * (n - t * (d \div 10)) <= d \div 10
        /\ 2 * (n % (d \div 10)) = d \div 10
             => (t = (n \div (d \div 10)) + 1 <=> QuotientNotBelow(n, d))

\* C15 as amended: the text is returned unchanged below 1000, and otherwise
\* n/1000 (n/1000000 from a million on) rounded to the nearest tenth, with
\* 'K' ('M'); a quotient halfway between two tenths goes the way toFixed(1)
\* rounds its double: '1050' -> '1.1K', '1150' -> '1.1K', '1250' -> '1.3K'.
\* '500' -> '500', '1500' -> '1.5K', '2500000' -> '2.5M' and
\* '999999' -> '1000.0K'.
C15_FormatVolume ==
    /\ \A n \in VolumeNumbers :
          Formatted(n)
              => IF n < 1000
                 THEN call.ret = call.arg
                 ELSE IF n < 1000000
                      THEN RoundedAsToFixed(call.ret, n, 1000, "K")
                      ELSE RoundedAsToFixed(call.ret, n, 1000000, "M")
    /\ Formatted(500) => call.ret = <<"5", "0", "0">>
    /\ Formatted(1500) => call.ret = <<"1", ".", "5", "K">>
    /\ Formatted(2500000) => call.ret = <<"2", ".", "5", "M">>
    /\ Formatted(999999) => call.ret = <<"1", "0", "0", "0", ".", "0", "K">>
    /\ Formatted(1050) => call.ret = <<"1", ".", "1", "K">>
    /\ Formatted(1150) => call.ret = <<"1", ".", "1", "K">>
    /\ Formatted(1250) => call.ret = <<"1", ".", "3", "K">>

\* C15 witness: '999999', just below a million, was formatted as '1000.0K'.
C15_Witness ==
    /\ call.fn = "formatVolume"
    /\ call.arg = <<"9", "9", "9", "9", "9", "9">>
    /\ call.ret = <<"1", "0", "0", "0", ".", "0", "K">>

\* C16: error is null, the validation message, or the load-failure prefix
\* followed by the cause some fetch failed with.
C16_ErrorValues ==
    \/ error = Null
    \/ error = Some("Minimum price must be less than maximum price")
    \/ \E i \in Ids :
          /\ fetches[i].status = "failed"
          /\ error = Some("Failed to load market data: " \o Payload(i).message)

\* C16 witness: a fetch has just failed after a refreshData() was rejected,
\* and error holds the load-failure message.
C16_Witness ==
    /\ lastOp.op = "error"
    /\ minPrice >= maxPrice
    /\ error # Null
    /\ error # Some(ValidationMsg)

\* C17: loading is false in every state in which no fetch is outstanding;
\* when every fetch issued completes, loading is false from some point on.
C17_LoadingSettles ==
    /\ [](Pending = {} => loading = FALSE)
    /\ <>[](loading = FALSE)

\* C17 witness: two fetches were issued, both have completed, and loading
\* is false.
C17_Witness ==
    /\ Len(fetches) = 2
    /\ Pending = {}
    /\ lastOp.op \in {"next", "error"}
    /\ loading = FALSE

\* C18: a refreshData() that finds minPrice >= maxPrice changes only error:
\* opportunities, summary, loading, maxStocks, the two prices (once
\* setPriceRange has stored them) and the fetches, outstanding or not, are
\* as before.
C18_RejectFrame ==
    [][(Refreshed' /\ minPrice' >= maxPrice')
        => /\ error' = Some(ValidationMsg)
           /\ UNCHANGED <<opportunities, summary, loading, maxStocks, fetches>>
           /\ IF lastOp'.op = "setPriceRange"
              THEN minPrice' = lastOp'.args[1] /\ maxPrice' = lastOp'.args[2]
              ELSE UNCHANGED <<minPrice, maxPrice>>]_vars

\* C18 witness: refreshData() was rejected while loaded results are
\* displayed and an earlier fetch is outstanding.
C18_Witness ==
    /\ lastOp.op = "refreshData"
    /\ lastOp.rejected
    /\ error = Some(ValidationMsg)
    /\ opportunities # <<>>
    /\ summary # Null
    /\ Pending # {}
    /\ loading = TRUE
====
